---- MODULE Spec2Model ----
(***************************************************************************)
(* Model of anagram.py: the prime-signature anagram engine.                *)
(*                                                                         *)
(* A Python str is a sequence of one-character strings, a list or tuple a  *)
(* sequence, the dictionary a function from signatures to word lists.      *)
(* The globals the functions read (dictionary, base, base_signature,       *)
(* perms) are passed as leading parameters d, b, sig, p.                   *)
(* int(value/number) is a float division; it is exact for quotients below  *)
(* 2^53, which covers every value of this model (all below 2^31).          *)
(* The pool workers are forked after prepare_data, so they read the        *)
(* parent's globals.                                                       *)
(***************************************************************************)
EXTENDS Integers, Sequences, FiniteSets, Bags, TLC

VARIABLES
    infile,          \* create_dict: the word list args.f, one word per line
    pickled,         \* the file DICTIONARY_PICKLE: the persisted dictionary
    pc,              \* "build", "shell", "pool", "done", "error"
    sub_parser,      \* the sub command run: "iterative", "tree", "json"
    dictionary,      \* global dictionary
    perms,           \* global perms
    base,            \* global base
    base_signature,  \* global base_signature
    max_words,       \* iterative: local max_words
    todo,            \* sizes whose combs_by_size task has not returned yet
    stream,          \* all_combs: combinations waiting to be put in a chunk
    inflight,        \* chunks of prod_and_filter tasks handed to the pool
    results,         \* returned possibilities the for loop has not read yet
    stdout,          \* bag of the printed anagram lines
    anagrams,        \* recursive: local anagrams
    pair,            \* two words given to word_signature
    sigs             \* their signatures

vars == <<infile, pickled, pc, sub_parser, dictionary, perms, base,
          base_signature, max_words, todo, stream, inflight, results, stdout,
          anagrams, pair, sigs>>

(***************************************************************************)
(* Bounds and inputs                                                       *)
(***************************************************************************)
MaxLen == 6        \* longest single-argument phrase
MaxSplit == 2      \* longest argument of a two-argument phrase
MaxWordLen == 3    \* longest word given to word_signature on its own

\* Characters typed on the command line: letters, an upper-case letter, and
\* a blank (inside a quoted argument).
InputChars == {"a", "b", "C", " "}

\* Letters of the words encoded on their own.
SigLetters == {"a", "b", "c", "z"}

RECURSIVE Strings(_, _)
Strings(S, n) ==
    IF n = 0 THEN {<<>>}
    ELSE LET shorter == Strings(S, n - 1)
         IN  shorter \cup {Append(s, ch) : s \in {t \in shorter : Len(t) = n - 1}, ch \in S}

\* args.words: argparse nargs='+' with action='append' gives a list holding
\* the list of arguments.
ArgLists ==
    {<< <<w>> >> : w \in Strings(InputChars, MaxLen)}
      \cup {<< <<w1, w2>> >> : w1, w2 \in Strings(InputChars, MaxSplit)}

\* scrabble_words.txt, as create_dict keeps it (words of 2 to 4 letters).
scrabble_words ==
    { <<"a","b">>, <<"b","a">>, <<"b","c">>, <<"c","c">>,
      <<"a","a","b">>, <<"a","b","c">>, <<"a","c","b">>, <<"c","a","b">>,
      <<"b","c","c">> }

\* Word lists given to `build`.
WordFiles ==
    { << <<"a">>, <<"c">>, <<"a","b">>, <<"b","a">>, <<"a","a","b">>, <<>>,
         <<"b","c">> >>,
      << <<"a","b","c">>, <<"b","c">>, <<"c","a","b">>, <<"a">>,
         <<"a","c","b">>, <<"c","b">> >>,
      << <<"a","a","b">>, <<"a","b","c">>, <<"b","c","c">>, <<"a","b">>,
         <<"c","c">>, <<"a","c","b">> >> }

(***************************************************************************)
(* Letter encoder                                                          *)
(***************************************************************************)
\* A table whose entry for c is not a prime.
primes_typo ==
    [a |-> 2, b |-> 3, c |-> 4, d |-> 7, e |-> 11, f |-> 13, g |-> 17,
     h |-> 19, i |-> 23, j |-> 29, k |-> 31, l |-> 37, m |-> 41, n |-> 43,
     o |-> 47, p |-> 53, q |-> 59, r |-> 61, s |-> 67, t |-> 71, u |-> 73,
     v |-> 79, w |-> 83, x |-> 89, y |-> 97, z |-> 101]

primes ==
    [a |-> 2, b |-> 3, c |-> 5, d |-> 7, e |-> 11, f |-> 13, g |-> 17,
     h |-> 19, i |-> 23, j |-> 29, k |-> 31, l |-> 37, m |-> 41, n |-> 43,
     o |-> 47, p |-> 53, q |-> 59, r |-> 61, s |-> 67, t |-> 71, u |-> 73,
     v |-> 79, w |-> 83, x |-> 89, y |-> 97, z |-> 101]

RECURSIVE prod(_)
prod(iterable) ==
    IF iterable = <<>> THEN 1 ELSE Head(iterable) * prod(Tail(iterable))

word_signature(word) ==
    prod([x \in 1..Len(word) |-> primes[word[x]]])

\* primes[x] raises KeyError for a character that is no key of primes.
KeyError(word) == \E x \in 1..Len(word) : word[x] \notin DOMAIN primes

(***************************************************************************)
(* Python helpers                                                          *)
(***************************************************************************)
\* str.lower, for the characters of the model.
lower(str) ==
    LET upper == [A |-> "a", B |-> "b", C |-> "c"]
    IN  [x \in 1..Len(str) |-> IF str[x] \in DOMAIN upper THEN upper[str[x]] ELSE str[x]]

\* ''.join(list of str)
RECURSIVE join(_)
join(strs) == IF strs = <<>> THEN <<>> ELSE Head(strs) \o join(Tail(strs))

\* sorted(set, reverse=True)
RECURSIVE sorted_reverse(_)
sorted_reverse(S) ==
    IF S = {} THEN <<>>
    ELSE LET top == CHOOSE x \in S : \A y \in S : y <= x
         IN  <<top>> \o sorted_reverse(S \ {top})

\* The elements of pool at the positions I, in pool's order.
pick(pool, I) ==
    LET F[x \in 0..Len(pool)] ==
            IF x = 0 THEN <<>>
            ELSE IF x \in I THEN Append(F[x - 1], pool[x]) ELSE F[x - 1]
    IN  F[Len(pool)]

\* set(itertools.combinations(pool, r))
combinations(pool, r) ==
    {pick(pool, I) : I \in {J \in SUBSET (1..Len(pool)) : Cardinality(J) = r}}

\* round(num/den): Python 3 rounds a half to the even integer.
round(num, den) ==
    LET quo == num \div den
        rem == num % den
    IN  IF 2 * rem < den THEN quo
        ELSE IF 2 * rem > den THEN quo + 1
        ELSE IF quo % 2 = 0 THEN quo ELSE quo + 1

min(x, y) == IF x <= y THEN x ELSE y

RECURSIVE sum(_)
sum(iterable) ==
    IF iterable = <<>> THEN 0 ELSE Head(iterable) + sum(Tail(iterable))

\* The text of a str: its characters as one string.
RECURSIVE text(_)
text(str) == IF str = <<>> THEN "" ELSE Head(str) \o text(Tail(str))

RECURSIVE joined(_, _)
joined(sep, texts) ==
    IF texts = <<>> THEN ""
    ELSE IF Len(texts) = 1 THEN texts[1]
    ELSE texts[1] \o sep \o joined(sep, Tail(texts))

\* str(list of str), e.g. ['ab', 'ba']
str(words) ==
    "[" \o joined(", ", [x \in 1..Len(words) |-> "'" \o text(words[x]) \o "'"]) \o "]"

(***************************************************************************)
(* build: create_dict                                                      *)
(***************************************************************************)
\* add_word that replaces the entry of a signature it has seen.
add_word_overwrite(d, word) ==
    IF Len(word) = 1 /\ word # <<"a">> /\ word # <<"i">> THEN d
    ELSE IF Len(word) > 1 /\ Len(word) < 5 /\ word \notin scrabble_words THEN d
    ELSE LET product == word_signature(word)
         IN  IF product # 1
             THEN IF product \notin DOMAIN d
                  THEN d @@ (product :> <<word>>)
                  ELSE [d EXCEPT ![product] = <<word>>]
             ELSE d

\* One pass of the loop over the lines of the word list.
add_word(d, word) ==
    IF Len(word) = 1 /\ word # <<"a">> /\ word # <<"i">> THEN d
    ELSE IF Len(word) > 1 /\ Len(word) < 5 /\ word \notin scrabble_words THEN d
    ELSE LET product == word_signature(word)
         IN  IF product # 1
             THEN IF product \notin DOMAIN d
                  THEN d @@ (product :> <<word>>)
                  ELSE [d EXCEPT ![product] = Append(@, word)]
             ELSE d

RECURSIVE create_dict(_)
create_dict(lines) ==
    IF lines = <<>> THEN <<>>
    ELSE add_word(create_dict(SubSeq(lines, 1, Len(lines) - 1)), lines[Len(lines)])

(***************************************************************************)
(* Sub-signature enumerator                                                *)
(***************************************************************************)
\* sub_word_signatures that stops one size short of the whole word.
sub_word_signatures_short(d, word) ==
    LET word_perms ==
            UNION { {word_signature(letters) : letters \in combinations(word, x)}
                    : x \in 1..(Len(word) - 1) }
    IN  sorted_reverse({signature \in word_perms : signature \in DOMAIN d})

sub_word_signatures(d, word) ==
    LET word_perms ==
            UNION { {word_signature(letters) : letters \in combinations(word, x)}
                    : x \in 1..Len(word) }
    IN  sorted_reverse({signature \in word_perms : signature \in DOMAIN d})

(***************************************************************************)
(* Combination search engine (iterative mode)                              *)
(***************************************************************************)
\* pre_filter that counts the words of each signature, not the letters of
\* its first word.
pre_filter_word_count(d, b, combs) ==
    sum([x \in 1..Len(combs) |-> Len(d[combs[x]])]) = Len(b)

pre_filter(d, b, combs) ==
    sum([x \in 1..Len(combs) |-> Len(d[combs[x]][1])]) = Len(b)

combs_by_size(d, b, p, size) ==
    {combs \in combinations(p, size) : pre_filter(d, b, combs)}

\* prod_and_filter that passes every combination through.
prod_and_filter_unchecked(sig, combination) == combination

\* Returns the combination, or False.  The caller reads the result through
\* its truth value alone (if (possibility)), and every combination is a
\* non-empty tuple: False is the falsy empty tuple here.
prod_and_filter(sig, combination) ==
    IF prod(combination) = sig THEN combination ELSE <<>>

\* max_words with the quotient truncated instead of rounded.
compute_max_words_floor(b) == min(Len(b) \div 4 + 1, 5)

compute_max_words(b) == min(round(Len(b), 4) + 1, 5)

\* imap_unordered(prod_and_filter, all_combs, 250)
chunksize == 250

\* " ".join(map(lambda x: str(dictionary[x]), possibility))
line(d, possibility) ==
    joined(" ", [x \in 1..Len(possibility) |-> str(d[possibility[x]])])

(***************************************************************************)
(* Recursive factorizer (recursive mode)                                   *)
(***************************************************************************)
Node(value, children) == [value |-> value, children |-> children]

\* The test without the remainder: any smaller number counts as a factor.
is_proper_factor_loose(value, number) == value > number

\* value != number and value % number == 0
is_proper_factor(value, number) == value # number /\ value % number = 0

RECURSIVE factor_to_tree(_, _, _)
RECURSIVE factor_to_tree_loop(_, _, _, _, _)
\* The for loop from the x-th number on, factorizations being the list so far.
factor_to_tree_loop(d, value, numbers, x, factorizations) ==
    IF x > Len(numbers) THEN factorizations
    ELSE LET number == numbers[x]
         IN  IF is_proper_factor(value, number)
             THEN LET factored == factor_to_tree(d, value \div number, numbers)
                  IN  factor_to_tree_loop(d, value, numbers, x + 1,
                          IF Len(factored) > 0
                          THEN Append(factorizations, Node(d[number], factored))
                          ELSE factorizations)
             ELSE IF value = number
             THEN << Node(<< d[value] >>, <<>>) >>
             ELSE factor_to_tree_loop(d, value, numbers, x + 1, factorizations)

factor_to_tree(d, value, numbers) ==
    factor_to_tree_loop(d, value, numbers, 1, <<>>)

\* The test that keeps an empty decomposition too.
keeps_factored_always(factored) == TRUE

\* type(factored) is int or len(factored) != 0: factored is never an int.
keeps_factored(factored) == Len(factored) # 0

RECURSIVE factor(_, _, _)
RECURSIVE factor_loop(_, _, _, _, _)
factor_loop(d, value, numbers, x, factorizations) ==
    IF x > Len(numbers) THEN factorizations
    ELSE LET number == numbers[x]
         IN  IF value % number = 0 /\ value \div number # 1
             THEN LET factored == factor(d, value \div number, numbers)
                  IN  factor_loop(d, value, numbers, x + 1,
                          IF keeps_factored(factored)
                          THEN Append(factorizations, str(d[number]) :> factored)
                          ELSE factorizations)
             \* value/number == 1: the float quotient is 1.0 exactly when the
             \* two are equal (values below 2^53)
             ELSE IF value = number
             THEN d[value]
             ELSE factor_loop(d, value, numbers, x + 1, factorizations)

factor(d, value, numbers) == factor_loop(d, value, numbers, 1, <<>>)

(***************************************************************************)
(* prepare_data                                                            *)
(***************************************************************************)
\* The globals after prepare_data(word); word_signature(base) raises
\* KeyError before base_signature and perms are assigned.
prepare_data(word) ==
    LET b == lower(join(word[1]))
    IN  [base |-> b,
         dictionary |-> pickled,
         raised |-> KeyError(b),
         base_signature |-> IF KeyError(b) THEN 0 ELSE word_signature(b),
         perms |-> IF KeyError(b) THEN <<>> ELSE sub_word_signatures(pickled, b)]

(***************************************************************************)
(* State machine                                                           *)
(***************************************************************************)
\* The module's globals as the interpreter sets them (lines 10-20).
Globals ==
    /\ dictionary = <<>>
    /\ perms = <<>>
    /\ base = <<>>
    /\ base_signature = 0

Idle ==
    /\ max_words = 0
    /\ todo = {}
    /\ stream = {}
    /\ inflight = {}
    /\ results = {}
    /\ stdout = EmptyBag
    /\ anagrams = <<>>

Init ==
    /\ infile \in WordFiles
    /\ pickled = <<>>
    /\ pc = "build"
    /\ sub_parser = "build"
    /\ Globals
    /\ Idle
    /\ pair = <<>>
    /\ sigs = <<>>

\* `build`: create_dict writes the dictionary to DICTIONARY_PICKLE.
CreateDict ==
    /\ pc = "build"
    /\ pickled' = create_dict(infile)
    /\ pc' = "shell"
    /\ UNCHANGED <<infile, sub_parser, dictionary, perms, base, base_signature,
                   max_words, todo, stream, inflight, results, stdout,
                   anagrams, pair, sigs>>

\* `recursive <words>`: the tree output.
RecursiveTree ==
    /\ pc = "shell"
    /\ \E words \in ArgLists :
         LET g == prepare_data(words)
         IN  /\ sub_parser' = "tree"
             /\ base' = g.base
             /\ dictionary' = g.dictionary
             /\ base_signature' = g.base_signature
             /\ perms' = g.perms
             /\ IF g.raised
                THEN /\ pc' = "error"
                     /\ anagrams' = anagrams
                ELSE /\ pc' = "done"
                     /\ anagrams' = Node(g.base,
                            factor_to_tree(g.dictionary, g.base_signature, g.perms))
    /\ UNCHANGED <<infile, pickled, max_words, todo, stream, inflight, results,
                   stdout, pair, sigs>>

\* `recursive --json <words>`: the nested mapping.
RecursiveJson ==
    /\ pc = "shell"
    /\ \E words \in ArgLists :
         LET g == prepare_data(words)
         IN  /\ sub_parser' = "json"
             /\ base' = g.base
             /\ dictionary' = g.dictionary
             /\ base_signature' = g.base_signature
             /\ perms' = g.perms
             /\ IF g.raised
                THEN /\ pc' = "error"
                     /\ anagrams' = anagrams
                ELSE /\ pc' = "done"
                     /\ anagrams' = factor(g.dictionary, g.base_signature, g.perms)
    /\ UNCHANGED <<infile, pickled, max_words, todo, stream, inflight, results,
                   stdout, pair, sigs>>

\* `iterative <words>` up to the first imap_unordered: the sizes are handed
\* to the pool.
Iterative ==
    /\ pc = "shell"
    /\ \E words \in ArgLists :
         LET g == prepare_data(words)
         IN  /\ sub_parser' = "iterative"
             /\ base' = g.base
             /\ dictionary' = g.dictionary
             /\ base_signature' = g.base_signature
             /\ perms' = g.perms
             /\ IF g.raised
                THEN /\ pc' = "error"
                     /\ UNCHANGED <<max_words, todo>>
                ELSE /\ pc' = "pool"
                     /\ max_words' = compute_max_words(g.base)
                     /\ todo' = 1..(compute_max_words(g.base) - 1)
    /\ UNCHANGED <<infile, pickled, stream, inflight, results, stdout,
                   anagrams, pair, sigs>>

\* A worker returns combs_by_size(size); chain.from_iterable appends it to
\* all_combs, whichever size comes back first.
CombsBySize ==
    /\ pc = "pool"
    /\ \E size \in todo :
         /\ todo' = todo \ {size}
         /\ stream' = stream \cup combs_by_size(dictionary, base, perms, size)
    /\ UNCHANGED <<infile, pickled, pc, sub_parser, dictionary, perms, base,
                   base_signature, max_words, inflight, results, stdout,
                   anagrams, pair, sigs>>

\* The task feeder cuts the next chunk of chunksize combinations from
\* all_combs, or a last shorter one when all_combs is exhausted.
FeedChunk ==
    /\ pc = "pool"
    /\ stream # {}
    /\ Cardinality(stream) >= chunksize \/ todo = {}
    /\ \E chunk \in SUBSET stream :
         /\ Cardinality(chunk) = min(chunksize, Cardinality(stream))
         /\ stream' = stream \ chunk
         /\ inflight' = inflight \cup {chunk}
    /\ UNCHANGED <<infile, pickled, pc, sub_parser, dictionary, perms, base,
                   base_signature, max_words, todo, results, stdout, anagrams,
                   pair, sigs>>

\* A worker maps prod_and_filter over its chunk and returns the results.
ProdAndFilter ==
    /\ pc = "pool"
    /\ \E chunk \in inflight :
         /\ inflight' = inflight \ {chunk}
         /\ results' = results \cup
              {[arg |-> combination,
                ret |-> prod_and_filter(base_signature, combination)]
                 : combination \in chunk}
    /\ UNCHANGED <<infile, pickled, pc, sub_parser, dictionary, perms, base,
                   base_signature, max_words, todo, stream, stdout, anagrams,
                   pair, sigs>>

\* One pass of the for loop over the results, in the order they arrive.
Emit ==
    /\ pc = "pool"
    /\ \E r \in results :
         /\ results' = results \ {r}
         /\ stdout' = IF r.ret # <<>>
                      THEN stdout (+) SetToBag({[possibility |-> r.ret,
                                                 text |-> line(dictionary, r.ret)]})
                      ELSE stdout
    /\ UNCHANGED <<infile, pickled, pc, sub_parser, dictionary, perms, base,
                   base_signature, max_words, todo, stream, inflight, anagrams,
                   pair, sigs>>

\* Both iterators are exhausted: the for loop and the with block end.
PoolExit ==
    /\ pc = "pool"
    /\ todo = {} /\ stream = {} /\ inflight = {} /\ results = {}
    /\ pc' = "done"
    /\ UNCHANGED <<infile, pickled, sub_parser, dictionary, perms, base,
                   base_signature, max_words, todo, stream, inflight, results,
                   stdout, anagrams, pair, sigs>>

PoolStep == CombsBySize \/ FeedChunk \/ ProdAndFilter \/ Emit \/ PoolExit

Next ==
    \/ CreateDict
    \/ RecursiveTree
    \/ RecursiveJson
    \/ Iterative
    \/ PoolStep

Spec == Init /\ [][Next]_vars

\* Iterative runs alone, with the pool's workers, its task feeder and the
\* parent's loop running on as long as one of them has work.
IterativeNext ==
    \/ CreateDict
    \/ Iterative
    \/ PoolStep

FairSpec == Init /\ [][IterativeNext]_vars /\ WF_vars(PoolStep)

(***************************************************************************)
(* The letter encoder on its own: two words are drawn and encoded.         *)
(***************************************************************************)
SigInit ==
    /\ infile = <<>>
    /\ pickled = <<>>
    /\ pc = "encode"
    /\ sub_parser = "none"
    /\ Globals
    /\ Idle
    /\ pair \in Strings(SigLetters, MaxWordLen) \X Strings(SigLetters, MaxWordLen)
    /\ sigs = <<>>

Encode ==
    /\ pc = "encode"
    /\ sigs = <<>>
    /\ sigs' = <<word_signature(pair[1]), word_signature(pair[2])>>
    /\ UNCHANGED <<infile, pickled, pc, sub_parser, dictionary, perms, base,
                   base_signature, max_words, todo, stream, inflight, results,
                   stdout, anagrams, pair>>

SigNext == Encode

SigSpec == SigInit /\ [][SigNext]_vars

(***************************************************************************)
(* Vocabulary of the properties                                            *)
(***************************************************************************)
Range(seq) == {seq[x] : x \in 1..Len(seq)}

Count(ch, word) == Cardinality({x \in 1..Len(word) : word[x] = ch})

Letters(word) == Range(word)

SameMultiset(w1, w2) ==
    \A ch \in Letters(w1) \cup Letters(w2) : Count(ch, w1) = Count(ch, w2)

SubMultiset(w1, w2) ==
    \A ch \in Letters(w1) : Count(ch, w1) <= Count(ch, w2)

Printed == BagToSet(stdout)

Emitted == {e.possibility : e \in Printed}

IterativeRan == sub_parser = "iterative" /\ pc \in {"pool", "done"}

IterativeDone == sub_parser = "iterative" /\ pc = "done"

TreeDone == sub_parser = "tree" /\ pc = "done"

JsonDone == sub_parser = "json" /\ pc = "done"

\* The letters of the words a combination stands for, counted.
LetterCount(combination) ==
    sum([x \in 1..Len(combination) |-> Len(dictionary[combination[x]][1])])

\* Every subset of the sub-signature set of a size the search covers whose
\* product is the phrase signature.
Accepted ==
    {c \in UNION {combinations(perms, size) : size \in 1..(compute_max_words(base) - 1)}
       : prod(c) = base_signature}

\* The words of the word list that the build step admits and that have
\* the signature sig, in the order of the list.
ClassOf(sig) ==
    LET Admitted(w) ==
            /\ w # <<>>
            /\ Len(w) = 1 => w \in {<<"a">>, <<"i">>}
            /\ Len(w) \in 2..4 => w \in scrabble_words
            /\ word_signature(w) = sig
    IN  SelectSeq(infile, Admitted)

\* The signature a node of the tree stands for: a leaf is labelled by a
\* list holding the word list, an inner node by the word list.
LabelSig(node) ==
    IF node.children = <<>>
    THEN word_signature(node.value[1][1])
    ELSE word_signature(node.value[1])

\* The root-to-leaf paths of a forest, each as the sequence of signatures.
RECURSIVE Paths(_)
Paths(forest) ==
    UNION { IF forest[x].children = <<>>
            THEN { <<LabelSig(forest[x])>> }
            ELSE { <<LabelSig(forest[x])>> \o rest : rest \in Paths(forest[x].children) }
            : x \in 1..Len(forest) }

\* The nested mapping that says what a forest says: a lone leaf is its word
\* list, a node is a one-key mapping from its label to its children's.
RECURSIVE tree_as_map(_)
tree_as_map(forest) ==
    IF Len(forest) = 1 /\ forest[1].children = <<>>
    THEN forest[1].value[1]
    ELSE [x \in 1..Len(forest) |->
            str(forest[x].value) :> tree_as_map(forest[x].children)]

\* The values the factorizer is called with at the top of a run and one
\* level below it.
Targets ==
    {base_signature} \cup Range(perms)
      \cup {base_signature \div x : x \in {y \in Range(perms) : base_signature % y = 0}}

(***************************************************************************)
(* Properties                                                              *)
(***************************************************************************)

\* C1: every combination iterative search prints has a summed word length
\* equal to the phrase length and a signature product equal to the phrase
\* signature, in every state of every interleaving of the pool.
C1_EmittedAreAnagrams ==
    \A c \in Emitted :
        /\ LetterCount(c) = Len(base)
        /\ prod(c) = base_signature

\* C1 witness: a finished search that printed a two-word combination and
\* in which prod_and_filter turned down a combination pre_filter let pass.
C1_Witness ==
    /\ IterativeDone
    /\ \E c \in Emitted : Len(c) = 2
    /\ \E c \in combs_by_size(dictionary, base, perms, 2) : prod(c) # base_signature

\* C2: once the sizes are handed to the pool, the run finishes and has then
\* printed every subset of the sub-signature set of size 1..max_words-1
\* whose product is the phrase signature.
C2_Complete ==
    (sub_parser = "iterative" /\ pc = "pool")
        ~> (pc = "done" /\ Accepted \subseteq Emitted)

\* C2 witness: a finished search with an accepted two-word subset, printed,
\* for which pre_filter discarded some other subset.
C2_Witness ==
    /\ IterativeDone
    /\ \E c \in Accepted : Len(c) = 2 /\ c \in Emitted
    /\ \E c \in combinations(perms, 2) : ~pre_filter(dictionary, base, c)

\* C3: when the phrase's own signature is a dictionary key and max_words
\* permits size 1, the finished search has printed exactly one combination
\* containing that signature, once, and its text lists every word of the
\* word list with that signature.
C3_OwnSignatureOnce ==
    (IterativeDone /\ base_signature \in DOMAIN dictionary /\ max_words > 1) =>
        LET own == [possibility |-> <<base_signature>>,
                    text |-> str(ClassOf(base_signature))]
        IN  /\ {e \in Printed : base_signature \in Range(e.possibility)} = {own}
            /\ CopiesIn(own, stdout) = 1

\* C3 witness: a finished search for a phrase whose signature three words
\* of the dictionary share.
C3_Witness ==
    /\ IterativeDone
    /\ base_signature \in DOMAIN dictionary
    /\ max_words > 1
    /\ Len(dictionary[base_signature]) = 3
    /\ <<base_signature>> \in Emitted

\* C4: two words have the same signature exactly when they have the same
\* letter multiset.
C4_SignatureIsMultiset ==
    sigs # <<>> => (sigs[1] = sigs[2] <=> SameMultiset(pair[1], pair[2]))

\* C4 witness: two different spellings of one three-letter multiset,
\* encoded to the same signature.
C4_Witness ==
    /\ sigs # <<>>
    /\ pair[1] # pair[2]
    /\ Len(pair[1]) = 3
    /\ SameMultiset(pair[1], pair[2])
    /\ sigs[1] = sigs[2]

C6_AllRootDecompositions ==
    TreeDone =>
        LET qualifies(f) ==
                \/ f = base_signature
                \/ /\ base_signature % f = 0
                   /\ f # base_signature
                   /\ factor_to_tree(dictionary, base_signature \div f, perms) # <<>>
            wanted == SelectSeq(perms, qualifies)
        IN  [x \in 1..Len(anagrams.children) |-> LabelSig(anagrams.children[x])] = wanted

C8_InvalidPhraseRejected ==
    (pc \in {"pool", "done", "error"} /\ (base = <<>> \/ KeyError(base))) =>
        /\ pc = "error"
        /\ perms = <<>>
        /\ stdout = EmptyBag
        /\ anagrams = <<>>

C10_SizeOneAlways ==
    (IterativeRan /\ base # <<>>) =>
        /\ max_words >= 2
        /\ (pc = "done" /\ base_signature \in DOMAIN dictionary)
              => <<base_signature>> \in Emitted

\* C10 amended: for a phrase of three or more letters max_words is at least
\* 2 and a phrase whose signature is a dictionary key has its one-signature
\* combination printed; for a phrase of one or two letters max_words is 1
\* and nothing is printed.
C10_SizeOneFromThreeLetters ==
    IterativeRan =>
        /\ Len(base) >= 3 =>
              /\ max_words >= 2
              /\ (pc = "done" /\ base_signature \in DOMAIN dictionary)
                    => <<base_signature>> \in Emitted
        /\ Len(base) \in {1, 2} => (max_words = 1 /\ stdout = EmptyBag)

\* C10 witness: a finished search for a three-letter phrase that is a
\* dictionary key, printed as a one-signature combination and nothing else.
C10_Witness ==
    /\ IterativeDone
    /\ Len(base) = 3
    /\ max_words = 2
    /\ Emitted = { <<base_signature>> }

====
